---- MODULE Spec2Model ----
(***************************************************************************)
(* withRecovery (src/src/withRecovery.ts): a controller that opens a popup *)
(* through a caller-supplied factory, polls it on an interval, reports     *)
(* closure, and re-creates it when it becomes inaccessible.                *)
(*                                                                         *)
(* The controller's closure variables are the model's variables.  Every    *)
(* operation (open, close, the interval callback, the message callback)    *)
(* is a function from a machine record to a machine record; an action      *)
(* applies one of them to the current state and commits the result.        *)
(* Event handlers registered with on() run synchronously inside dispatch   *)
(* and may call the controller back; what the handlers do is an input of   *)
(* the operation (its script).                                             *)
(*                                                                         *)
(* Optional values (string | undefined) are sets with at most one element. *)
(***************************************************************************)
EXTENDS Integers, Sequences, FiniteSets, TLC

VARIABLES
    win,              \* let win: the active handle, NoWin for null
    timer,            \* let timer: TRUE when it holds an interval id
    messageHandler,   \* let messageHandler: TRUE when it holds the listener
    closedByManager,  \* let closedByManager
    state,            \* const state: RecoveryState
    lostAfterMs,      \* options.lostAfterMs
    intervals,        \* host: intervals registered by this controller and not cleared
    listeners,        \* host: "message" listeners registered by this controller
    now,              \* host: Date.now()
    made,             \* host: number of windows the factory has produced
    winClosed,        \* host: the closed flag of the window that win refers to
    closeAsked,       \* host: the windows on which the controller invoked close()
    trace,            \* what the most recent operation did, in order
    closedReported,   \* a `closed` event was emitted and open() was not called since
    closeReturned,    \* "no", or how close() last returned with no open() call since
    streak,           \* consecutive ticks that found the active handle inaccessible
    failedRecovery,   \* a recovery failed and open() was not called since
    exitHeard,        \* a POPUP_EXIT message came since the active handle was installed
    targetOrigin,     \* options.targetOrigin, Undefined when not set
    emitter,          \* const emitter: the listener list of the EventTarget
    subscriptions,    \* the on() calls made, and when each was unsubscribed
    hook,             \* useExternalWindow: the state and the refs of the hook
    dom,              \* useExternalWindow: the windows and intervals of the host
    arg,              \* the argument of a function under study
    result,           \* what the function gave for arg
    popup             \* openWindow: the window it returned, its listeners, its poller

vars == <<win, timer, messageHandler, closedByManager, state, lostAfterMs,
          intervals, listeners, now, made, winClosed, closeAsked, trace,
          closedReported, closeReturned, streak, failedRecovery, exitHeard,
          targetOrigin, emitter, subscriptions, hook, dom, arg, result,
          popup>>

\* ---------------------------------------------------------------- bounds
MaxTicks == 3
MaxHandles == 2

\* ------------------------------------------------------ program constants
pollMs == 250

StartTime == 4 * pollMs
LostAfterChoices == {0, 2 * pollMs}

NoWin == 0
Undefined == {}
Some(v) == {v}

\* ------------------------------------------------------------ guarded reads
\* safeRead (l.55-61): { ok: true, value } or { ok: false }
Ok(v) == [ok |-> TRUE, value |-> Some(v)]
Threw == [ok |-> FALSE, value |-> Undefined]

\* What the reads of one window give in one callback.  `closed` says whether
\* reading w.closed succeeds (its value is the window's real closed flag).
SameOrigin ==
    [closed |-> TRUE, x |-> Ok(10), y |-> Ok(10), w |-> Ok(400), h |-> Ok(300),
     name |-> Ok("popup"), href |-> Ok("https://app/popup")]
CrossOrigin == [SameOrigin EXCEPT !.href = Threw]
Blocked ==
    [closed |-> TRUE, x |-> Threw, y |-> Threw, w |-> Threw, h |-> Threw,
     name |-> Threw, href |-> Threw]
ClosedUnreadable == [SameOrigin EXCEPT !.closed = FALSE]
XUnreadable == [SameOrigin EXCEPT !.x = Threw]
OnlyHref == [Blocked EXCEPT !.href = Ok("https://app/popup")]
ReadCases == {SameOrigin, CrossOrigin, ClosedUnreadable}
OpenReads == {SameOrigin}

\* What a handler registered with on() does when it is invoked: nothing that
\* concerns the controller, or a call of controller.close().
Reactions == {"none", "close"}
\* What the factory does when it is invoked.
FactoryOutcomes == {"window", "invalid", "throws"}

\* The scripts of an operation: the handlers of at most one of its dispatches
\* call the controller back (the first, second or third dispatch).
Scripts ==
    {<< >>} \cup {<<r>> : r \in Reactions \ {"none"}}
            \cup {<<"none", r>> : r \in Reactions \ {"none"}}
            \cup {<<"none", "none", r>> : r \in Reactions \ {"none"}}
\* The factory's outcomes in an operation: its first invocation may fail.
FactoryScripts == {<< >>} \cup {<<o>> : o \in FactoryOutcomes \ {"window"}}

\* ------------------------------------------------------------------ state
\* const state (l.41-48)
InitialState ==
    [name |-> Undefined,
     bounds |-> [x |-> Undefined, y |-> Undefined, w |-> Undefined, h |-> Undefined],
     lastSeenHref |-> Undefined,
     lastGoodAt |-> 0,
     lastLossAt |-> 0,
     exitSignaled |-> FALSE]

\* The controller and its host as one record, with the inputs of the
\* operation under way: script (what the handlers do, one entry per
\* dispatch), facs (what the factory does, one entry per invocation),
\* closeOk (whether win.close() closes the window), reads (what the reads of
\* window properties give during the operation).
Machine(script, facs, closeOk, reads) ==
    [win |-> win, timer |-> timer, messageHandler |-> messageHandler,
     closedByManager |-> closedByManager, state |-> state,
     lostAfterMs |-> lostAfterMs, intervals |-> intervals,
     listeners |-> listeners, now |-> now, made |-> made,
     winClosed |-> winClosed, closeAsked |-> closeAsked, trace |-> << >>,
     closedReported |-> closedReported, closeReturned |-> closeReturned,
     streak |-> streak, failedRecovery |-> failedRecovery,
     exitHeard |-> exitHeard,
     script |-> script, facs |-> facs, closeOk |-> closeOk, reads |-> reads,
     depth |-> 0, threw |-> FALSE]

Log(m, e) == [m EXCEPT !.trace = Append(@, e)]

\* structuredClone(state): values are immutable here, the copy is the value
StructuredClone(s) == s

\* ----------------------------------------------------- listener and timer
\* attachMessageListener without the guard of its first line
AttachMessageListenerAgain(m) ==
    Log([m EXCEPT !.messageHandler = TRUE, !.listeners = @ + 1],
        [k |-> "addEventListener"])

\* attachMessageListener (l.88-111)
AttachMessageListener(m) ==
    IF m.messageHandler THEN m
    ELSE Log([m EXCEPT !.messageHandler = TRUE, !.listeners = @ + 1],
             [k |-> "addEventListener"])

\* detachMessageListener (l.113-117)
DetachMessageListener(m) ==
    IF ~m.messageHandler THEN m
    ELSE Log([m EXCEPT !.messageHandler = FALSE, !.listeners = @ - 1],
             [k |-> "removeEventListener"])

\* clearInterval(timer), guarded by `if (timer)`
ClearTimer(m) ==
    IF m.timer THEN Log([m EXCEPT !.intervals = @ - 1], [k |-> "clearInterval"])
    ELSE m

\* stop that leaves the message listener registered
StopKeepsListener(m) == [ClearTimer(m) EXCEPT !.timer = FALSE]

\* stop that forgets the interval without clearing it
StopKeepsTimer(m) == DetachMessageListener([m EXCEPT !.timer = FALSE])

\* stop (l.119-123)
Stop(m) ==
    DetachMessageListener([ClearTimer(m) EXCEPT !.timer = FALSE])

\* start that does not clear the interval of an earlier start
StartLeaksTimer(m) ==
    LET attached == AttachMessageListener(m)
    IN  Log([attached EXCEPT !.timer = TRUE, !.intervals = @ + 1],
            [k |-> "setInterval"])

\* start (l.199-203)
Start(m) ==
    LET attached == AttachMessageListener(m)
        cleared == ClearTimer(attached)
    IN  Log([cleared EXCEPT !.timer = TRUE, !.intervals = @ + 1],
            [k |-> "setInterval"])

\* closeCurrent (l.125-131): win.close() is best effort, a throw is swallowed
CloseCurrent(m) ==
    IF m.win = NoWin THEN m
    ELSE Log([m EXCEPT !.closedByManager = TRUE,
                       !.closeAsked = @ \cup {m.win},
                       !.winClosed = @ \/ m.closeOk],
             [k |-> "win.close", h |-> m.win])

\* isClosed that takes a failed read of w.closed for a closed window
IsClosedWhenUnreadable(m, reads) ==
    IF reads.closed THEN m.winClosed ELSE TRUE

\* isClosed (l.155-158): a failed read of w.closed counts as not closed
IsClosed(m, reads) ==
    IF reads.closed THEN m.winClosed ELSE FALSE

\* snapshotUiState that gives up at the first read that fails
SnapshotAbortsOnFailure(m, reads) ==
    LET upTo(n) == \A i \in 1..n :
                      <<reads.x, reads.y, reads.w, reads.h, reads.name,
                        reads.href>>[i].ok
    IN  [m EXCEPT
            !.state.bounds.x = IF upTo(1) THEN reads.x.value ELSE @,
            !.state.bounds.y = IF upTo(2) THEN reads.y.value ELSE @,
            !.state.bounds.w = IF upTo(3) THEN reads.w.value ELSE @,
            !.state.bounds.h = IF upTo(4) THEN reads.h.value ELSE @,
            !.state.name = IF upTo(5) THEN reads.name.value ELSE @,
            !.state.lastSeenHref = IF upTo(6) THEN reads.href.value ELSE @]

\* snapshotUiState (l.63-82), the updates of state
SnapshotUiState(m, reads) ==
    [m EXCEPT
        !.state.name = IF reads.name.ok THEN reads.name.value ELSE @,
        !.state.bounds.x = IF reads.x.ok THEN reads.x.value ELSE @,
        !.state.bounds.y = IF reads.y.ok THEN reads.y.value ELSE @,
        !.state.bounds.w = IF reads.w.ok THEN reads.w.value ELSE @,
        !.state.bounds.h = IF reads.h.ok THEN reads.h.value ELSE @,
        !.state.lastSeenHref = IF reads.href.ok THEN reads.href.value ELSE @]

\* snapshotUiState (l.81), its result: the "accessible" signal
Accessible(reads) == reads.href.ok

\* ------------------------------------------------------ the controller
\* controller.close (l.218-221)
ControllerClose(m) ==
    LET entered == Log(m, [k |-> "call", name |-> "close", depth |-> m.depth])
        closed == CloseCurrent(Stop(entered))
    IN  Log([closed EXCEPT !.closeReturned =
                               IF m.depth = 0 THEN "caller" ELSE "handler"],
            [k |-> "return", name |-> "close", depth |-> m.depth])

\* dispatch (l.84-86): the handlers run inside dispatchEvent; an exception
\* of a handler is reported by the event target and does not reach dispatch
Dispatch(m, detail) ==
    LET react == IF m.script = << >> THEN "none" ELSE Head(m.script)
        emitted == Log([m EXCEPT
                           !.script = IF @ = << >> THEN @ ELSE Tail(@),
                           !.closedReported = @ \/ detail.type = "closed"],
                       [k |-> "emit", type |-> detail.type, detail |-> detail])
        inside == [emitted EXCEPT !.depth = @ + 1]
        handled == IF react = "close" THEN ControllerClose(inside) ELSE inside
    IN  [handled EXCEPT !.depth = m.depth, !.threw = FALSE]

\* openNew that does not reset exitSignaled
ResetFlagsKeepsExit(m) == [m EXCEPT !.closedByManager = FALSE]

\* openNew that also forgets when the handle was last good
ResetFlagsForgetsGood(m) ==
    [m EXCEPT !.closedByManager = FALSE, !.state.exitSignaled = FALSE,
              !.state.lastGoodAt = 0]

\* openNew (l.134-135)
ResetFlags(m) ==
    [m EXCEPT !.closedByManager = FALSE, !.state.exitSignaled = FALSE]

\* openNew (l.133-153)
OpenNew(m, reason) ==
    LET reset == ResetFlags(m)
        outcome == IF reset.facs = << >> THEN "window" ELSE Head(reset.facs)
        called == Log([reset EXCEPT !.facs = IF @ = << >> THEN @ ELSE Tail(@)],
                      [k |-> "factory", outcome |-> outcome,
                       arg |-> StructuredClone(reset.state)])
    IN  IF outcome # "window"
        THEN [called EXCEPT !.threw = TRUE]
        ELSE LET next == called.made + 1
                 opened ==
                     [called EXCEPT
                         !.made = next,
                         !.win = next,
                         !.winClosed = FALSE,
                         !.exitHeard = FALSE,
                         !.state.name = IF called.reads.name.ok
                                        THEN called.reads.name.value ELSE @,
                         !.state.lastGoodAt = called.now,
                         !.state.lastLossAt = 0,
                         !.streak = 0]
             IN  Dispatch(opened,
                          [type |-> "open", reason |-> reason, win |-> next,
                           state |-> StructuredClone(opened.state)])

\* controller.open that starts the timer and listener before openNew
ControllerOpenStartsFirst(m, reason) ==
    LET entered == Log([m EXCEPT !.closedReported = FALSE,
                                 !.closeReturned = "no",
                                 !.failedRecovery = FALSE],
                       [k |-> "call", name |-> "open", depth |-> m.depth,
                        reason |-> reason])
        opened == OpenNew(Start(entered), reason)
    IN  IF opened.threw
        THEN Log(opened, [k |-> "throw", name |-> "open", depth |-> m.depth])
        ELSE Log(opened, [k |-> "return", name |-> "open", depth |-> m.depth,
                          value |-> opened.win])

\* controller.open (l.213-217)
ControllerOpen(m, reason) ==
    LET entered == Log([m EXCEPT !.closedReported = FALSE,
                                 !.closeReturned = "no",
                                 !.failedRecovery = FALSE],
                       [k |-> "call", name |-> "open", depth |-> m.depth,
                        reason |-> reason])
        opened == OpenNew(entered, reason)
    IN  IF opened.threw
        THEN Log(opened, [k |-> "throw", name |-> "open", depth |-> m.depth])
        ELSE Log(Start(opened),
                 [k |-> "return", name |-> "open", depth |-> m.depth,
                  value |-> opened.win])

\* the accessible branch without the reset of lastLossAt
MarkGoodKeepsLoss(m) == [m EXCEPT !.state.lastGoodAt = m.now, !.streak = 0]

\* tick (l.178-182): the handle is accessible
MarkGood(m) ==
    [m EXCEPT !.state.lastGoodAt = m.now, !.state.lastLossAt = 0, !.streak = 0]

\* the inaccessible branch restarting the loss at every tick
MarkLossRestarts(m) == [m EXCEPT !.state.lastLossAt = m.now, !.streak = @ + 1]

\* the inaccessible branch never recording when the loss began
MarkLossForgets(m) == [m EXCEPT !.streak = @ + 1]

\* tick (l.185): the handle is not accessible; the loss starts now unless
\* one is under way
MarkLoss(m) ==
    [m EXCEPT !.state.lastLossAt = IF @ = 0 THEN m.now ELSE @,
              !.streak = @ + 1]

\* recovery that does not announce the loss
RecoverWithoutLost(m, lostFor) ==
    LET reopened == OpenNew(CloseCurrent(m), "recovery")
    IN  IF reopened.threw
        THEN Log([reopened EXCEPT !.failedRecovery = TRUE],
                 [k |-> "throw", name |-> "tick", depth |-> m.depth])
        ELSE Dispatch(reopened, [type |-> "recovered",
                                 state |-> StructuredClone(reopened.state)])

\* recovery that swallows a failure of openNew and reports success
RecoverSwallowsFailure(m, lostFor) ==
    LET lost == Dispatch(m, [type |-> "lost", lostForMs |-> lostFor,
                             state |-> StructuredClone(m.state)])
        reopened == OpenNew(CloseCurrent(lost), "recovery")
    IN  Dispatch([reopened EXCEPT !.threw = FALSE],
                 [type |-> "recovered",
                  state |-> StructuredClone(reopened.state)])

\* recovery that opens the replacement before it closes a handle
RecoverOpensBeforeClosing(m, lostFor) ==
    LET lost == Dispatch(m, [type |-> "lost", lostForMs |-> lostFor,
                             state |-> StructuredClone(m.state)])
        reopened == OpenNew(lost, "recovery")
    IN  IF reopened.threw
        THEN Log([reopened EXCEPT !.failedRecovery = TRUE],
                 [k |-> "throw", name |-> "tick", depth |-> m.depth])
        ELSE Dispatch(CloseCurrent(reopened),
                      [type |-> "recovered",
                       state |-> StructuredClone(reopened.state)])

\* tick (l.190-196): declare the loss and re-create the window
Recover(m, lostFor) ==
    LET lost == Dispatch(m, [type |-> "lost", lostForMs |-> lostFor,
                             state |-> StructuredClone(m.state)])
        reopened == OpenNew(CloseCurrent(lost), "recovery")
    IN  IF reopened.threw
        THEN Log([reopened EXCEPT !.failedRecovery = TRUE],
                 [k |-> "throw", name |-> "tick", depth |-> m.depth])
        ELSE Dispatch(reopened, [type |-> "recovered",
                                 state |-> StructuredClone(reopened.state)])

\* tick (l.160-197), the callback of the interval.  The probe entry of the
\* trace records what the tick found: closed, accessible, and nth, the
\* number of consecutive ticks that found this handle inaccessible;
\* closedRead says whether the read of w.closed succeeded.
Tick(m, reads) ==
    LET entered == Log(m, [k |-> "call", name |-> "tick", depth |-> m.depth])
    IN  IF m.win = NoWin THEN entered
        ELSE IF IsClosed(m, reads)
        THEN LET stopped ==
                     Stop(Log(entered, [k |-> "probe", closed |-> TRUE,
                                        closedRead |-> reads.closed,
                                        accessible |-> FALSE, nth |-> 0]))
             IN  Dispatch(stopped,
                          [type |-> "closed",
                           byManager |-> stopped.closedByManager,
                           exitSignaled |-> stopped.state.exitSignaled,
                           state |-> StructuredClone(stopped.state)])
        ELSE
        LET snapped == SnapshotUiState(entered, reads)
        IN  IF Accessible(reads)
            THEN MarkGood(Log(snapped, [k |-> "probe", closed |-> FALSE,
                                        closedRead |-> reads.closed,
                                        accessible |-> TRUE, nth |-> 0,
                                        reads |-> reads]))
            ELSE
            LET marked == MarkLoss(Log(snapped,
                                       [k |-> "probe", closed |-> FALSE,
                                        closedRead |-> reads.closed,
                                        accessible |-> FALSE,
                                        nth |-> snapped.streak + 1,
                                        reads |-> reads]))
                lostFor == marked.now - marked.state.lastLossAt
            IN  IF marked.lostAfterMs > 0 /\ lostFor < marked.lostAfterMs
                THEN marked
                ELSE Recover(marked, lostFor)

\* A "message" event.  origin is e.origin; fromOwn says whether e.source is
\* the active handle of this controller (FALSE: the window of another
\* controller of the same opener).  The other fields describe e.data.
\* object: msg is a non-null object; type, reason, bounds, name are those of
\* msg, Undefined when absent; nameType is typeof msg.name; bounds is the
\* value the message carries there (a record with any keys, the empty
\* record for a truthy value that is not an object).
AppOrigin == "https://app.example"
OtherOrigin == "https://other.example"
NotAnObject ==
    [origin |-> AppOrigin, fromOwn |-> TRUE,
     object |-> FALSE, type |-> Undefined, reason |-> Undefined,
     bounds |-> Undefined, name |-> Undefined, nameType |-> "undefined"]
ExitNav == [NotAnObject EXCEPT !.object = TRUE, !.type = Some("POPUP_EXIT"),
                               !.reason = Some("nav")]
ExitNoReason == [ExitNav EXCEPT !.reason = Undefined]
UiStateMoved ==
    [NotAnObject EXCEPT !.object = TRUE, !.type = Some("POPUP_UI_STATE"),
                        !.bounds = Some([x |-> Some(20)]),
                        !.name = Some("moved"), !.nameType = "string"]
UiStateNoBounds == [UiStateMoved EXCEPT !.bounds = Undefined]
UiStateResized ==
    [UiStateMoved EXCEPT !.bounds = Some([w |-> Some(500), h |-> Some(350)]),
                         !.name = Undefined, !.nameType = "undefined"]
UiStateNumberName ==
    [UiStateMoved EXCEPT !.name = Some("42"), !.nameType = "number"]
UiStateForeignKey ==
    [UiStateResized EXCEPT !.bounds = Some([z |-> Some(1)])]
UiStateBoundsNotRecord ==
    [UiStateMoved EXCEPT !.bounds = Some(<< >>), !.name = Some("other")]
UnknownType == [NotAnObject EXCEPT !.object = TRUE, !.type = Some("PING")]
NoType == [NotAnObject EXCEPT !.object = TRUE]
ExitFromOtherOrigin == [ExitNav EXCEPT !.origin = OtherOrigin]
ExitFromOtherController == [ExitNav EXCEPT !.fromOwn = FALSE]
Messages == {NotAnObject, ExitNav, ExitNoReason, UnknownType}

\* a spread that drops the fields of a
SpreadReplaces(a, b) == b

\* { ...a, ...b }
Spread(a, b) ==
    [key \in DOMAIN a \cup DOMAIN b |-> IF key \in DOMAIN b THEN b[key] ELSE a[key]]

\* a ?? b
Coalesce(a, b) == IF a = Undefined THEN b ELSE a

\* messageHandler (l.91-108), the callback of the "message" listener
MessageHandler(m, msg) ==
    LET entered == Log(m, [k |-> "call", name |-> "message", depth |-> m.depth,
                           msg |-> msg])
    IN  IF ~msg.object THEN entered
        ELSE
        LET exited ==
                IF msg.type = Some("POPUP_EXIT")
                THEN LET signaled == [entered EXCEPT
                                         !.state.exitSignaled = TRUE,
                                         !.exitHeard = TRUE]
                     IN  Dispatch(signaled,
                                  [type |-> "exit",
                                   reason |-> Coalesce(msg.reason, Some("unknown")),
                                   state |-> StructuredClone(signaled.state)])
                ELSE entered
        IN  IF msg.type = Some("POPUP_UI_STATE") /\ msg.bounds # Undefined
            THEN [exited EXCEPT
                     !.state.bounds = Spread(@, CHOOSE b \in msg.bounds : TRUE),
                     !.state.name = IF msg.nameType = "string"
                                    THEN msg.name ELSE @]
            ELSE exited

\* ---------------------------------------------------------------- actions
MaxTime == StartTime + MaxTicks * pollMs
Reasons == {"initial", "manual"}

\* The rest of the library while the controller is under study: a hook that
\* is mounted and has opened nothing, no function applied.
HookInitial ==
    [portalTarget |-> NoWin, isOpen |-> FALSE, externalWindowRef |-> NoWin,
     checkWindowIntervalRef |-> NoWin, mounted |-> TRUE]
DomInitial == [windows |-> << >>, polls |-> {}, loads |-> {}, closedOpen |-> {}]
\* openWindow not yet called
PopupInitial ==
    [opened |-> FALSE, tracked |-> FALSE, name |-> "", events |-> {},
     href |-> "", lastUrl |-> "", poller |-> FALSE, listeners |-> << >>,
     callHistory |-> << >>, patched |-> FALSE, closed |-> FALSE, closes |-> 0]
ComponentVars == <<hook, dom, arg, result, popup>>
ComponentsIdle ==
    /\ hook = HookInitial
    /\ dom = DomInitial
    /\ popup = PopupInitial
    /\ arg = << >>
    /\ result = << >>

\* withRecovery(openPopup, options) (l.33-53)
Init ==
    /\ win = NoWin
    /\ timer = FALSE
    /\ messageHandler = FALSE
    /\ closedByManager = FALSE
    /\ state = InitialState
    /\ lostAfterMs \in LostAfterChoices
    /\ intervals = 0
    /\ listeners = 0
    /\ now = StartTime
    /\ made = 0
    /\ winClosed = FALSE
    /\ closeAsked = {}
    /\ trace = << >>
    /\ closedReported = FALSE
    /\ closeReturned = "no"
    /\ streak = 0
    /\ failedRecovery = FALSE
    /\ exitHeard = FALSE
    /\ targetOrigin = Undefined
    /\ emitter = << >>
    /\ subscriptions = << >>
    /\ ComponentsIdle

\* The state after an operation that ended in machine m.
Commit(m) ==
    /\ m.made <= MaxHandles
    /\ m.script = << >>
    /\ m.facs = << >>
    /\ win' = m.win
    /\ timer' = m.timer
    /\ messageHandler' = m.messageHandler
    /\ closedByManager' = m.closedByManager
    /\ state' = m.state
    /\ lostAfterMs' = m.lostAfterMs
    /\ intervals' = m.intervals
    /\ listeners' = m.listeners
    /\ now' = m.now
    /\ made' = m.made
    /\ winClosed' = m.winClosed
    /\ closeAsked' = m.closeAsked
    /\ trace' = m.trace
    /\ closedReported' = m.closedReported
    /\ closeReturned' = m.closeReturned
    /\ streak' = m.streak
    /\ failedRecovery' = m.failedRecovery
    /\ exitHeard' = m.exitHeard
    /\ UNCHANGED <<targetOrigin, emitter, subscriptions>>
    /\ UNCHANGED ComponentVars

\* The events an operation emitted, in order.
Emits(tr) == SelectSeq(tr, LAMBDA e : e.k = "emit")
Did(tr, kind) == \E i \in DOMAIN tr : tr[i].k = kind
Reacts(script, r) == \E i \in DOMAIN script : script[i] = r

\* The inputs an operation can consume, read off its run `plain` without
\* inputs: a script no longer than its dispatches, a factory outcome when
\* the factory is invoked, the outcome of win.close() when a window is asked
\* to close.
ScriptsFor(plain) == {sc \in Scripts : Len(sc) <= Len(Emits(plain.trace))}
FactoryScriptsFor(plain) ==
    IF Did(plain.trace, "factory") THEN FactoryScripts ELSE {<< >>}
CloseOutcomesFor(plain, script) ==
    IF Did(plain.trace, "win.close") \/ Reacts(script, "close")
    THEN BOOLEAN ELSE {TRUE}
WithInputs(at, script, facs, closeOk) ==
    [at EXCEPT !.script = script, !.facs = facs, !.closeOk = closeOk]

\* the caller calls controller.open(reason)
Open ==
    \E reason \in Reasons, reads \in OpenReads :
        LET at == Machine(<< >>, << >>, TRUE, reads)
            plain == ControllerOpen(at, reason)
        IN  \E script \in ScriptsFor(plain), facs \in FactoryScriptsFor(plain) :
            \E closeOk \in CloseOutcomesFor(plain, script) :
                Commit(ControllerOpen(WithInputs(at, script, facs, closeOk), reason))

\* the caller calls controller.close()
Close ==
    LET at == Machine(<< >>, << >>, TRUE, SameOrigin)
    IN  \E closeOk \in CloseOutcomesFor(ControllerClose(at), << >>) :
            Commit(ControllerClose(WithInputs(at, << >>, << >>, closeOk)))

\* pollMs have passed since the interval was set or last fired: it fires
TimerFires ==
    /\ intervals > 0
    /\ now + pollMs <= MaxTime
    /\ \E reads \in ReadCases :
           LET at == [Machine(<< >>, << >>, TRUE, reads) EXCEPT !.now = now + pollMs]
               plain == Tick(at, reads)
           IN  \E script \in ScriptsFor(plain), facs \in FactoryScriptsFor(plain) :
               \E closeOk \in CloseOutcomesFor(plain, script) :
                   Commit(Tick(WithInputs(at, script, facs, closeOk), reads))

\* a "message" event reaches the opener's window
MessageArrives ==
    /\ listeners > 0
    /\ \E msg \in Messages, reads \in OpenReads :
           LET at == Machine(<< >>, << >>, TRUE, reads)
               plain == MessageHandler(at, msg)
           IN  \E script \in ScriptsFor(plain), facs \in FactoryScriptsFor(plain) :
               \E closeOk \in CloseOutcomesFor(plain, script) :
                   Commit(MessageHandler(WithInputs(at, script, facs, closeOk), msg))

\* the user closes the active window (the closed flag of a window the
\* controller no longer holds is never read)
UserCloses ==
    /\ win # NoWin
    /\ ~winClosed
    /\ winClosed' = TRUE
    /\ trace' = << >>
    /\ UNCHANGED <<win, timer, messageHandler, closedByManager, state,
                   lostAfterMs, intervals, listeners, now, made, closeAsked,
                   closedReported, closeReturned, streak, failedRecovery,
                   exitHeard,
                   targetOrigin, emitter, subscriptions>>
    /\ UNCHANGED ComponentVars

Next ==
    \/ Open
    \/ Close
    \/ TimerFires
    \/ MessageArrives
    \/ UserCloses

Spec == Init /\ [][Next]_vars

\* ------------------------------------------- messages and reads in detail
\* A second specification of the same controller, for what the message
\* handler and the guarded reads do with each input: the handlers
\* registered with on() do not call the controller back, the factory
\* returns a window, and the messages and the reads vary.
MaxDetailTicks == 2
TargetOriginChoices == {Undefined, Some(AppOrigin)}
DetailReads == {SameOrigin, CrossOrigin, Blocked, XUnreadable, OnlyHref}
DetailMessages ==
    {NotAnObject, NoType, UnknownType, ExitNav, ExitFromOtherOrigin,
     ExitFromOtherController, UiStateMoved, UiStateResized, UiStateNoBounds,
     UiStateNumberName, UiStateForeignKey, UiStateBoundsNotRecord}

\* withRecovery(openPopup, options) (l.33-53), options.targetOrigin set or not
InitDetail ==
    /\ win = NoWin
    /\ timer = FALSE
    /\ messageHandler = FALSE
    /\ closedByManager = FALSE
    /\ state = InitialState
    /\ lostAfterMs \in LostAfterChoices
    /\ intervals = 0
    /\ listeners = 0
    /\ now = StartTime
    /\ made = 0
    /\ winClosed = FALSE
    /\ closeAsked = {}
    /\ trace = << >>
    /\ closedReported = FALSE
    /\ closeReturned = "no"
    /\ streak = 0
    /\ failedRecovery = FALSE
    /\ exitHeard = FALSE
    /\ targetOrigin \in TargetOriginChoices
    /\ emitter = << >>
    /\ subscriptions = << >>
    /\ ComponentsIdle

\* the caller calls controller.open()
OpenDetail ==
    Commit(ControllerOpen(Machine(<< >>, << >>, TRUE, SameOrigin), "initial"))

\* the interval fires
TimerFiresDetail ==
    /\ intervals > 0
    /\ now + pollMs <= StartTime + MaxDetailTicks * pollMs
    /\ \E reads \in DetailReads :
           Commit(Tick([Machine(<< >>, << >>, TRUE, reads)
                           EXCEPT !.now = now + pollMs], reads))

\* a "message" event reaches the opener's window
MessageArrivesDetail ==
    /\ listeners > 0
    /\ \E msg \in DetailMessages :
           Commit(MessageHandler(Machine(<< >>, << >>, TRUE, SameOrigin), msg))

NextDetail ==
    \/ OpenDetail
    \/ TimerFiresDetail
    \/ MessageArrivesDetail

SpecDetail == InitDetail /\ [][NextDetail]_vars

\* ------------------------------------------------------------ the emitter
\* A third specification, of the subscriptions alone: on() and the
\* functions it returns act on the listener list of the emitter, and
\* dispatch invokes the listeners of the event's type.  subscriptions
\* records every on() call, with `off`: 0 while the function that call
\* returned has not been invoked, else the number of on() calls that had
\* been made when it was last invoked.
MaxOnCalls == 3
EventTypes == {"open", "closed"}
Handlers == {"h1", "h2"}

Listener(type, callback) == [type |-> type, callback |-> callback]

\* addEventListener that registers the same callback twice
AddEventListenerAppends(list, type, callback) ==
    Append(list, Listener(type, callback))

\* emitter.addEventListener(type, handler) (l.223): the event target does
\* not add a listener whose type and callback are already in its list
AddEventListener(list, type, callback) ==
    IF \E i \in DOMAIN list : list[i] = Listener(type, callback)
    THEN list
    ELSE Append(list, Listener(type, callback))

\* emitter.removeEventListener(type, handler) (l.224)
RemoveEventListener(list, type, callback) ==
    SelectSeq(list, LAMBDA l : l # Listener(type, callback))

\* emitter.dispatchEvent (l.85): the callbacks invoked, in order
DispatchEvent(list, type) ==
    LET listening == SelectSeq(list, LAMBDA l : l.type = type)
    IN  [i \in 1..Len(listening) |->
            [k |-> "handler", callback |-> listening[i].callback]]

ControllerVars ==
    <<win, timer, messageHandler, closedByManager, state, lostAfterMs,
      intervals, listeners, now, made, winClosed, closeAsked, closedReported,
      closeReturned, streak, failedRecovery, exitHeard, targetOrigin>>

\* the caller calls controller.on(type, handler)
On ==
    /\ Len(subscriptions) < MaxOnCalls
    /\ \E type \in EventTypes, handler \in Handlers :
           /\ emitter' = AddEventListener(emitter, type, handler)
           /\ subscriptions' = Append(subscriptions,
                                      [type |-> type, handler |-> handler,
                                       off |-> 0])
           /\ trace' = <<[k |-> "call", name |-> "on", depth |-> 0,
                          type |-> type, handler |-> handler]>>
    /\ UNCHANGED ControllerVars
    /\ UNCHANGED ComponentVars

\* the caller invokes the function an on() call returned
Unsubscribe ==
    /\ \E i \in DOMAIN subscriptions :
           /\ emitter' = RemoveEventListener(emitter, subscriptions[i].type,
                                             subscriptions[i].handler)
           /\ subscriptions' = [subscriptions EXCEPT
                                    ![i].off = Len(subscriptions)]
           /\ trace' = <<[k |-> "call", name |-> "unsubscribe", depth |-> 0,
                          of |-> i]>>
    /\ UNCHANGED ControllerVars
    /\ UNCHANGED ComponentVars

\* the controller dispatches an event
Dispatches ==
    /\ \E type \in EventTypes :
           trace' = <<[k |-> "call", name |-> "dispatch", depth |-> 0,
                       type |-> type]>> \o DispatchEvent(emitter, type)
    /\ UNCHANGED <<emitter, subscriptions>>
    /\ UNCHANGED ControllerVars
    /\ UNCHANGED ComponentVars

NextEmitter ==
    \/ On
    \/ Unsubscribe
    \/ Dispatches

SpecEmitter == Init /\ [][NextEmitter]_vars

\* ------------------------------------------------------- useExternalWindow
\* A fourth specification, of the hook of src/src/useExternalWindow.ts.
\* hook holds portalTarget and isOpen (useState), externalWindowRef and
\* checkWindowIntervalRef (useRef) and whether the component is mounted.  A
\* window is the number of the window.open call that made it, NoWin is
\* null; portalTarget holds the window whose shadow root it is, and
\* checkWindowIntervalRef the window that the interval it refers to polls.
\* dom holds the host's side: windows, the status of every window made
\* ("open", "closing" once close() was invoked on it and until the browsing
\* context is gone, "closed" once the user closed it; the closed flag of a
\* window reads true unless it is "open"); polls, the windows whose
\* interval is running; loads, the windows whose load listener has not run
\* yet; closedOpen, the windows the user closed while the hook held them as
\* its open window.
MaxWindowOpens == 3

\* The controller while the hook or a function is under study: constructed
\* and never used.
ControllerIdle ==
    /\ win = NoWin
    /\ timer = FALSE
    /\ messageHandler = FALSE
    /\ closedByManager = FALSE
    /\ state = InitialState
    /\ lostAfterMs = 0
    /\ intervals = 0
    /\ listeners = 0
    /\ now = StartTime
    /\ made = 0
    /\ winClosed = FALSE
    /\ closeAsked = {}
    /\ closedReported = FALSE
    /\ closeReturned = "no"
    /\ streak = 0
    /\ failedRecovery = FALSE
    /\ exitHeard = FALSE
    /\ targetOrigin = Undefined
    /\ emitter = << >>
    /\ subscriptions = << >>
WithRecoveryVars == <<ControllerVars, emitter, subscriptions>>

HookMachine == [hook |-> hook, dom |-> dom, trace |-> << >>]

\* w.closed
WindowClosed(m, w) == m.dom.windows[w] # "open"

\* handleWindowClose that leaves the interval running
HandleWindowCloseKeepsInterval(m) ==
    Log([m EXCEPT !.hook.portalTarget = NoWin,
                  !.hook.isOpen = FALSE,
                  !.hook.externalWindowRef = NoWin],
        [k |-> "onClose"])

\* handleWindowClose (l.277-293)
HandleWindowClose(m) ==
    LET polled == m.hook.checkWindowIntervalRef
        cleared == IF polled # NoWin
                   THEN Log([m EXCEPT !.dom.polls = @ \ {polled},
                                      !.hook.checkWindowIntervalRef = NoWin],
                            [k |-> "clearInterval", of |-> polled])
                   ELSE m
    IN  Log([cleared EXCEPT !.hook.portalTarget = NoWin,
                            !.hook.isOpen = FALSE,
                            !.hook.externalWindowRef = NoWin],
            [k |-> "onClose"])

\* window.open returned newWindow (l.173-222): the ref, isOpen, the load
\* listener and the interval that polls newWindow
Opened(m) ==
    LET newWindow == Len(m.dom.windows) + 1
        made1 == Log([m EXCEPT !.dom.windows = Append(@, "open")],
                     [k |-> "window.open", outcome |-> "window",
                      win |-> newWindow])
    IN  Log([made1 EXCEPT !.hook.externalWindowRef = newWindow,
                          !.hook.isOpen = TRUE,
                          !.dom.loads = @ \cup {newWindow},
                          !.dom.polls = @ \cup {newWindow},
                          !.hook.checkWindowIntervalRef = newWindow],
            [k |-> "setInterval", of |-> newWindow])

\* open that marks the hook open before it looks at what window.open gave
HookOpenOptimistic(m, blocked) ==
    LET entered == Log(m, [k |-> "call", name |-> "hook.open", depth |-> 0])
        current == m.hook.externalWindowRef
    IN  IF current # NoWin /\ ~WindowClosed(m, current)
        THEN Log(entered, [k |-> "focus", h |-> current])
        ELSE IF blocked
        THEN Log(Log([entered EXCEPT !.hook.isOpen = TRUE],
                     [k |-> "window.open", outcome |-> "null"]),
                 [k |-> "console.error"])
        ELSE Opened(entered)

\* open (l.158-223); blocked: window.open returns null
HookOpen(m, blocked) ==
    LET entered == Log(m, [k |-> "call", name |-> "hook.open", depth |-> 0])
        current == m.hook.externalWindowRef
    IN  IF current # NoWin /\ ~WindowClosed(m, current)
        THEN Log(entered, [k |-> "focus", h |-> current])
        ELSE IF blocked
        THEN Log(Log(entered, [k |-> "window.open", outcome |-> "null"]),
                 [k |-> "console.error"])
        ELSE Opened(entered)

\* close (l.228-233)
HookClose(m) ==
    LET entered == Log(m, [k |-> "call", name |-> "hook.close", depth |-> 0])
        current == m.hook.externalWindowRef
    IN  IF current # NoWin /\ ~WindowClosed(m, current)
        THEN HandleWindowClose(
                 Log([entered EXCEPT !.dom.windows[current] = "closing"],
                     [k |-> "win.close", h |-> current]))
        ELSE HandleWindowClose(entered)

\* the cleanup of the effect (l.298-302), run when the component unmounts
HookUnmount(m) ==
    LET entered == Log(m, [k |-> "call", name |-> "hook.unmount", depth |-> 0])
        closed == HookClose(entered)
    IN  [closed EXCEPT !.hook.mounted = FALSE]

\* the callback of the interval that polls newWindow (l.218-222)
PollCallback(m, newWindow) ==
    LET entered == Log(m, [k |-> "call", name |-> "hook.poll", depth |-> 0,
                           of |-> newWindow,
                           closed |-> WindowClosed(m, newWindow)])
    IN  IF WindowClosed(m, newWindow) THEN HandleWindowClose(entered)
        ELSE entered

\* the load listener of newWindow (l.180-215)
LoadCallback(m, newWindow) ==
    LET entered == Log(m, [k |-> "call", name |-> "hook.load", depth |-> 0,
                           of |-> newWindow])
    IN  Log([entered EXCEPT !.hook.portalTarget = newWindow,
                            !.dom.loads = @ \ {newWindow}],
            [k |-> "onOpen", win |-> newWindow])

\* useExternalWindow(options) (l.52-80), first render
InitHook ==
    /\ ControllerIdle
    /\ trace = << >>
    /\ ComponentsIdle

HookCommit(m) ==
    /\ Len(m.dom.windows) <= MaxWindowOpens
    /\ hook' = m.hook
    /\ dom' = m.dom
    /\ trace' = m.trace
    /\ UNCHANGED <<WithRecoveryVars, arg, result, popup>>

\* the component calls open()
CallsOpen ==
    /\ hook.mounted
    /\ \E blocked \in BOOLEAN : HookCommit(HookOpen(HookMachine, blocked))

\* the component calls close()
CallsClose ==
    /\ hook.mounted
    /\ HookCommit(HookClose(HookMachine))

\* the component unmounts
Unmounts ==
    /\ hook.mounted
    /\ HookCommit(HookUnmount(HookMachine))

\* 500 ms have passed since an interval was set or last fired: it fires
PollFires ==
    \E w \in dom.polls : HookCommit(PollCallback(HookMachine, w))

\* the document of a window has loaded; a window on which close() was
\* invoked may still deliver the event before its browsing context is gone
LoadFires ==
    \E w \in dom.loads :
        /\ dom.windows[w] # "closed"
        /\ HookCommit(LoadCallback(HookMachine, w))

\* the user closes a window
UserClosesWindow ==
    \E w \in DOMAIN dom.windows :
        /\ dom.windows[w] = "open"
        /\ dom' = [dom EXCEPT
                      !.windows[w] = "closed",
                      !.closedOpen =
                          IF hook.isOpen /\ hook.externalWindowRef = w
                          THEN @ \cup {w} ELSE @]
        /\ trace' = << >>
        /\ UNCHANGED <<hook, WithRecoveryVars, arg, result, popup>>

NextHook ==
    \/ CallsOpen
    \/ CallsClose
    \/ Unmounts
    \/ PollFires
    \/ LoadFires
    \/ UserClosesWindow

SpecHook == InitHook /\ [][NextHook]_vars

\* ------------------------------------------------ serializeWindowFeatures
\* windowFeatures.ts l.8-25 (the same function is in useExternalWindow.ts
\* l.9-26).  A features record is the sequence of its entries in the order
\* Object.entries gives them; a value carries its JavaScript type.
MaxEntries == 2
FeatureKeys == {"width", "top", "menubar"}
Bool(b) == [t |-> "boolean", b |-> b, n |-> 0, s |-> ""]
Num(n) == [t |-> "number", b |-> FALSE, n |-> n, s |-> ""]
Str(s) == [t |-> "string", b |-> FALSE, n |-> 0, s |-> s]
UndefinedValue == [t |-> "undefined", b |-> FALSE, n |-> 0, s |-> ""]
NullValue == [t |-> "null", b |-> FALSE, n |-> 0, s |-> ""]
FeatureValues ==
    {Bool(TRUE), Bool(FALSE), Num(0), Num(800), Str("yes"), Str("no"),
     UndefinedValue, NullValue}
Entry(key, value) == [key |-> key, value |-> value]

\* Records of at most MaxEntries entries, no key twice
FeatureRecords ==
    UNION {{f \in [1..n -> [key : FeatureKeys, value : FeatureValues]] :
               \A i, j \in 1..n : f[i].key = f[j].key => i = j} :
           n \in 0..MaxEntries}

\* `${value}` for a number or a string
TemplateValue(value) ==
    IF value.t = "number" THEN ToString(value.n) ELSE value.s

\* the callback of map that lets a falsy value through as no entry
MapEntryDropsFalsy(e) ==
    IF \/ e.value.t \in {"undefined", "null"}
       \/ e.value = Bool(FALSE)
       \/ e.value = Num(0)
    THEN Undefined
    ELSE IF e.value.t = "boolean"
    THEN Some(e.key \o "=" \o "yes")
    ELSE Some(e.key \o "=" \o TemplateValue(e.value))

\* the callback of map (l.10-22): null, or the entry's text
MapEntry(e) ==
    IF e.value.t \in {"undefined", "null"}
    THEN Undefined
    ELSE IF e.value.t = "boolean"
    THEN Some(e.key \o "=" \o (IF e.value.b THEN "yes" ELSE "no"))
    ELSE Some(e.key \o "=" \o TemplateValue(e.value))

\* Boolean(x) for x null or a string
Truthy(x) == x # Undefined /\ x # Some("")

RECURSIVE Join(_, _)
\* Array.prototype.join
Join(parts, separator) ==
    IF parts = << >> THEN ""
    ELSE IF Len(parts) = 1 THEN Head(parts)
    ELSE Head(parts) \o separator \o Join(Tail(parts), separator)

TextOf(x) == CHOOSE text \in x : TRUE

SerializeWindowFeatures(features) ==
    LET mapped == [i \in DOMAIN features |-> MapEntry(features[i])]
        kept == SelectSeq(mapped, Truthy)
    IN  Join([i \in DOMAIN kept |-> TextOf(kept[i])], ",")

InitSerialize ==
    /\ ControllerIdle
    /\ hook = HookInitial
    /\ dom = DomInitial
    /\ popup = PopupInitial
    /\ trace = << >>
    /\ arg \in FeatureRecords
    /\ result = Undefined

\* serializeWindowFeatures(arg) is called
Serializes ==
    /\ result = Undefined
    /\ result' = Some(SerializeWindowFeatures(arg))
    /\ trace' = <<[name |-> "serializeWindowFeatures", k |-> "call"]>>
    /\ UNCHANGED <<WithRecoveryVars, hook, dom, arg, popup>>

NextSerialize == Serializes

SpecSerialize == InitSerialize /\ [][NextSerialize]_vars

\* ------------------------------------------------------- requestFullscreen
\* part_000 l.208-237.  The argument: the window (null, closed or open), what
\* reading its document gives, and for each of the four names of the
\* fullscreen request on the document element whether it is there and what
\* calling it does.
FullscreenNames ==
    <<"requestFullscreen", "webkitRequestFullscreen", "mozRequestFullScreen",
      "msRequestFullscreen">>
\* absent: no such property; resolves / rejects: the promise it returns;
\* returns: it gives no promise; throws: it throws when called
MethodKinds == {"absent", "resolves", "returns", "rejects", "throws"}
WindowKinds == {"null", "closed", "open"}
\* throws: reading window.document throws (another origin); noRoot: the
\* document has no documentElement
DocumentKinds == {"throws", "noRoot", "element"}
FullscreenArgs ==
    [window : WindowKinds, document : DocumentKinds,
     methods : [1..Len(FullscreenNames) -> MethodKinds]]

Resolved(b) == [settled |-> "resolved", value |-> b, warned |-> FALSE]
Rejected == [settled |-> "rejected", value |-> FALSE, warned |-> FALSE]
\* the catch block (l.232-236)
Caught == [settled |-> "resolved", value |-> FALSE, warned |-> TRUE]

\* a || b || c || d over the four properties (l.218-222): the index of the
\* first one that is there, 0 when none is
RequestFullscreenFn(a) ==
    IF \A i \in DOMAIN a.methods : a.methods[i] = "absent" THEN 0
    ELSE CHOOSE i \in DOMAIN a.methods :
             /\ a.methods[i] # "absent"
             /\ \A j \in 1..(i - 1) : a.methods[j] = "absent"

\* the body of the try block: "threw", or the value it returns
TryRequest(a) ==
    IF a.document # "element" THEN "threw"
    ELSE LET fn == RequestFullscreenFn(a)
         IN  IF fn = 0 THEN "false"
             ELSE IF a.methods[fn] \in {"rejects", "throws"} THEN "threw"
             ELSE "true"

\* requestFullscreen without the try / catch
RequestFullscreenUnguarded(a) ==
    IF a.window \in {"null", "closed"} THEN Resolved(FALSE)
    ELSE LET body == TryRequest(a)
         IN  IF body = "threw" THEN Rejected
             ELSE Resolved(body = "true")

RequestFullscreen(a) ==
    IF a.window \in {"null", "closed"} THEN Resolved(FALSE)
    ELSE LET body == TryRequest(a)
         IN  IF body = "threw" THEN Caught
             ELSE Resolved(body = "true")

InitFullscreen ==
    /\ ControllerIdle
    /\ hook = HookInitial
    /\ dom = DomInitial
    /\ popup = PopupInitial
    /\ trace = << >>
    /\ arg \in FullscreenArgs
    /\ result = Undefined

\* requestFullscreen(arg) is called and its promise settles
RequestsFullscreen ==
    /\ result = Undefined
    /\ result' = Some(RequestFullscreen(arg))
    /\ trace' = <<[name |-> "requestFullscreen", k |-> "call"]>>
    /\ UNCHANGED <<WithRecoveryVars, hook, dom, arg, popup>>

NextFullscreen == RequestsFullscreen

SpecFullscreen == InitFullscreen /\ [][NextFullscreen]_vars

\* ------------------------------------- openWindow, withNavigationTracking
\* openWindow.ts.  popup is the window openWindow returned together with
\* what the closures of openWindow and withNavigationTracking hold: events
\* (the names of the handlers the caller passed), lastUrl and the poller of
\* the tracking, the call history of the patched addEventListener, whether
\* close is still the patched one.  listeners are the listeners the window
\* has, href is its location ("denied" when reading it throws), closes
\* counts the calls of the window's original close.
MaxListeners == 2
MaxCloseCalls == 2
Denied == "denied"
Urls == {"https://app/a", "https://app/b"}
WindowNames == {"", "tool"}
\* the handlers a caller passes: custom ones and the one of a DOM event
EventChoices ==
    {{}, {"afterClosed"}, {"navigation"}, {"load", "navigation", "afterClosed"}}
ListenerTypes == {"resize", "beforeunload"}

PopupMachine == [popup |-> popup, trace |-> << >>]

\* wrappedFunction of withCallHistory (l.36-39) around addEventListener
WrappedAddEventListener(m, type, callback) ==
    Log([m EXCEPT
            !.popup.callHistory = Append(@, <<type, callback>>),
            !.popup.listeners = AddEventListener(@, type, callback)],
        [k |-> "addEventListener", type |-> type])

RECURSIVE RemoveAll(_)
\* while (events.length) windowRef.removeEventListener(...events.pop()) (l.70)
RemoveAll(m) ==
    IF m.popup.callHistory = << >> THEN m
    ELSE LET history == m.popup.callHistory
             last == history[Len(history)]
         IN  RemoveAll(Log([m EXCEPT
                               !.popup.callHistory = SubSeq(@, 1, Len(@) - 1),
                               !.popup.listeners =
                                   RemoveEventListener(@, last[1], last[2])],
                           [k |-> "removeEventListener", type |-> last[1]]))

\* the window's own close
OriginalClose(m) ==
    Log([m EXCEPT !.popup.closed = TRUE, !.popup.closes = @ + 1],
        [k |-> "originalClose"])

\* windowRef.name || undefined
WindowRefName(m) == IF m.popup.name = "" THEN Undefined ELSE Some(m.popup.name)

\* object.afterClosed, for the object that `events` names inside the patched
\* close: the const of l.69, the call history, an array without such a
\* property
AfterClosedOf(history) == Undefined

\* the function assigned to windowRef.close (l.68-75)
PatchedClose(m) ==
    LET events == m.popup.callHistory
        removed == RemoveAll(m)
        windowRefName == WindowRefName(removed)
        closed == OriginalClose([removed EXCEPT !.popup.patched = FALSE])
    IN  IF AfterClosedOf(events) # Undefined
        THEN Log(closed, [k |-> "handler", type |-> "afterClosed",
                          windowName |-> windowRefName])
        ELSE closed

\* windowRef.close()
WindowClose(m) ==
    LET entered == Log(m, [k |-> "call", name |-> "window.close", depth |-> 0])
    IN  IF m.popup.patched THEN PatchedClose(entered) ELSE OriginalClose(entered)

\* openWindow (l.49-82); blocked: window.open returns null
OpenWindow(m, url, name, events, blocked) ==
    IF blocked THEN Log(m, [k |-> "window.open", outcome |-> "null"])
    ELSE
    LET created == Log([m EXCEPT !.popup.opened = TRUE,
                                 !.popup.name = name,
                                 !.popup.events = events,
                                 !.popup.href = url],
                       [k |-> "window.open", outcome |-> "window"])
        listening == IF "load" \in events
                     THEN WrappedAddEventListener(created, "load", "events.load")
                     ELSE created
        patched == [listening EXCEPT !.popup.patched = TRUE]
    IN  IF "create" \in events
        THEN Log(patched, [k |-> "handler", type |-> "create"])
        ELSE patched

\* events.navigation as withNavigationTracking replaces it (l.88-93)
NavigationWrapper(m, url) ==
    IF url # m.popup.lastUrl
    THEN LET known == [m EXCEPT !.popup.lastUrl = url]
         IN  IF "navigation" \in m.popup.events
             THEN Log(known, [k |-> "handler", type |-> "navigation",
                              url |-> url])
             ELSE known
    ELSE m

\* the function withNavigationTracking returns (l.85-115); the poller is
\* set when openWindow returned a window
TrackedOpenWindow(m, url, name, events, blocked) ==
    LET entered == [m EXCEPT !.popup.lastUrl = url, !.popup.tracked = TRUE]
        returned == OpenWindow(entered, url, name, events, blocked)
    IN  IF returned.popup.opened
        THEN Log([returned EXCEPT !.popup.poller = TRUE], [k |-> "setInterval"])
        ELSE returned

\* the callback of the poller (l.100-112); dispatchOk: dispatchEvent on the
\* window whose location could not be read returns (it throws on a window of
\* another origin)
PollerCallback(m, dispatchOk) ==
    LET entered == Log(m, [k |-> "call", name |-> "poller", depth |-> 0,
                           read |-> m.popup.href])
        currentUrl == m.popup.href
    IN  IF currentUrl = Denied
        THEN IF dispatchOk
             THEN Log([Log(entered, [k |-> "dispatchEvent",
                                     type |-> "ownershipLost"])
                          EXCEPT !.popup.poller = FALSE],
                      [k |-> "clearInterval"])
             ELSE Log(entered, [k |-> "throw", name |-> "poller", depth |-> 0])
        ELSE IF currentUrl # m.popup.lastUrl
        THEN NavigationWrapper([entered EXCEPT !.popup.lastUrl = currentUrl],
                               currentUrl)
        ELSE entered

InitPopup ==
    /\ ControllerIdle
    /\ trace = << >>
    /\ ComponentsIdle

PopupCommit(m) ==
    /\ popup' = m.popup
    /\ trace' = m.trace
    /\ UNCHANGED <<WithRecoveryVars, hook, dom, arg, result>>

\* the caller opens the window, through openWindow or through
\* withNavigationTracking(openWindow)
OpensWindow ==
    /\ ~popup.opened
    /\ \E url \in Urls, name \in WindowNames, events \in EventChoices,
          blocked \in BOOLEAN, tracked \in BOOLEAN :
           LET entered == Log(PopupMachine,
                              [k |-> "call", name |-> "openWindow", depth |-> 0])
           IN  PopupCommit(IF tracked
                           THEN TrackedOpenWindow(entered, url, name, events, blocked)
                           ELSE OpenWindow(entered, url, name, events, blocked))

\* the caller registers a listener with windowRef.addEventListener
AddsListener ==
    /\ popup.opened
    /\ Len(popup.callHistory) < MaxListeners
    /\ \E type \in ListenerTypes :
           PopupCommit(WrappedAddEventListener(
               Log(PopupMachine, [k |-> "call", name |-> "addEventListener",
                                  depth |-> 0]),
               type, "h"))

\* the caller calls windowRef.close()
ClosesWindow ==
    /\ popup.opened
    /\ popup.closes < MaxCloseCalls
    /\ PopupCommit(WindowClose(PopupMachine))

\* the window navigates, to a page of the opener's origin or away from it
Navigates ==
    /\ popup.opened
    /\ ~popup.closed
    /\ \E url \in (Urls \cup {Denied}) \ {popup.href} :
           /\ popup' = [popup EXCEPT !.href = url]
           /\ trace' = << >>
           /\ UNCHANGED <<WithRecoveryVars, hook, dom, arg, result>>

\* 500 ms have passed: the poller fires
PollerFires ==
    /\ popup.poller
    /\ \E dispatchOk \in BOOLEAN :
           PopupCommit(PollerCallback(PopupMachine, dispatchOk))

NextPopup ==
    \/ OpensWindow
    \/ AddsListener
    \/ ClosesWindow
    \/ Navigates
    \/ PollerFires

SpecPopup == InitPopup /\ [][NextPopup]_vars

\* ------------------------------------------------- reading the last operation
\* The operation that produced the current state ("none" for a step of the
\* host that runs no code of the controller).
Op == IF trace = << >> THEN "none" ELSE trace[1].name

EmitTypes(tr) == [i \in 1..Len(Emits(tr)) |-> Emits(tr)[i].type]
Details(tr) == [i \in 1..Len(Emits(tr)) |-> Emits(tr)[i].detail]

\* The last operation was a tick on a handle, and what it found.
ProbedTick == Op = "tick" /\ Len(trace) >= 2 /\ trace[2].k = "probe"
ClosedTick == ProbedTick /\ trace[2].closed
AccessibleTick == ProbedTick /\ ~trace[2].closed /\ trace[2].accessible
InaccessibleTick == ProbedTick /\ ~trace[2].closed /\ ~trace[2].accessible

\* The factory was invoked in the last operation, and with which outcome.
FactoryCalls(tr) == SelectSeq(tr, LAMBDA e : e.k = "factory")
FactoryGave(outcome) ==
    \E i \in DOMAIN trace : trace[i].k = "factory" /\ trace[i].outcome = outcome

\* Position of the first entry of kind k in the trace, 0 when there is none.
FirstOf(tr, kind) ==
    IF Did(tr, kind) THEN CHOOSE i \in DOMAIN tr :
                              /\ tr[i].k = kind
                              /\ \A j \in 1..(i - 1) : tr[j].k # kind
    ELSE 0

\* ------------------------------------------------------------------ claims

\* C1: once the closed flag of the active handle reads true, the tick emits
\* exactly one `closed` event, stops the timer and the message listener and
\* does not invoke the factory; from then on, until open() is called, no
\* timer and no listener is registered, no tick and no message callback
\* runs, and no operation emits an event.
ClosedIsReportedOnceAndIsFinal ==
    /\ ClosedTick =>
           /\ EmitTypes(trace) = <<"closed">>
           /\ ~Did(trace, "factory")
           /\ ~timer /\ ~messageHandler /\ intervals = 0 /\ listeners = 0
           /\ closedReported
    /\ closedReported =>
           /\ intervals = 0 /\ listeners = 0
           /\ ClosedTick \/ (Op \notin {"tick", "message"} /\ Emits(trace) = << >>)

\* C1 witness: a tick has reported the closure, and the caller has since
\* called close() without any event.
ClosedWasReportedThenCloseCalled ==
    closedReported /\ Op = "close" /\ winClosed /\ win # NoWin

\* C2 as stated: every `recovered` event is immediately preceded by a `lost`
\* event, with no event between them.
RecoveredDirectlyFollowsLost ==
    \A i \in DOMAIN EmitTypes(trace) :
        EmitTypes(trace)[i] = "recovered" =>
            i > 1 /\ EmitTypes(trace)[i - 1] = "lost"

\* C2 amended: every `recovered` event is emitted by a tick that emitted
\* `lost` before it, and exactly one event lies between the two: the `open`
\* event, with reason "recovery", of the replacement handle.
RecoveredFollowsLostAndRecoveryOpen ==
    \A i \in DOMAIN EmitTypes(trace) :
        EmitTypes(trace)[i] = "recovered" =>
            /\ Op = "tick"
            /\ i = 3
            /\ EmitTypes(trace)[1] = "lost"
            /\ EmitTypes(trace)[2] = "open"
            /\ Details(trace)[2].reason = "recovery"
            /\ Details(trace)[2].win = win

\* C2 witness: a tick has emitted lost, open and recovered.
TickRecovered ==
    InaccessibleTick /\ EmitTypes(trace) = <<"lost", "open", "recovered">>

\* The time for which the handle has been inaccessible at a tick that found
\* it inaccessible for the nth consecutive time, ticks being pollMs apart.
InaccessibleFor == (trace[2].nth - 1) * pollMs

\* C3: with lostAfterMs > 0, a tick that finds the open handle inaccessible
\* emits nothing and keeps the handle while now - lastLossAt < lostAfterMs;
\* the first tick at which now - lastLossAt >= lostAfterMs emits `lost` with
\* lostForMs = now - lastLossAt and, the factory returning a window,
\* `recovered`.  With lostAfterMs = 500 and ticks 250 ms apart the first and
\* the second inaccessible tick emit nothing and the third fires.
GracePeriodDelaysRecovery ==
    (lostAfterMs > 0 /\ InaccessibleTick) =>
        /\ IF InaccessibleFor < lostAfterMs
           THEN /\ Emits(trace) = << >>
                /\ ~Did(trace, "factory")
                /\ ~Did(trace, "win.close")
                /\ now - state.lastLossAt = InaccessibleFor
           ELSE /\ Len(Emits(trace)) >= 1
                /\ EmitTypes(trace)[1] = "lost"
                /\ Details(trace)[1].lostForMs = InaccessibleFor
                /\ Details(trace)[1].lostForMs >= lostAfterMs
                /\ FactoryGave("window") =>
                       EmitTypes(trace)[Len(Emits(trace))] = "recovered"
        /\ lostAfterMs = 2 * pollMs =>
               (Emits(trace) # << >> <=> trace[2].nth >= 3)

\* C3 witness: the third consecutive inaccessible tick, 500 ms into the
\* loss, recovers.
ThirdInaccessibleTickRecovers ==
    /\ lostAfterMs = 2 * pollMs
    /\ InaccessibleTick
    /\ trace[2].nth = 3
    /\ EmitTypes(trace) = <<"lost", "open", "recovered">>
    /\ Details(trace)[1].lostForMs = 2 * pollMs

\* C4: with lostAfterMs = 0 the first tick whose accessibility probe fails
\* emits `lost`, with lostForMs = 0, and then (the factory returning a
\* window) `recovered`, in that same tick.
ImmediateRecovery ==
    (lostAfterMs = 0 /\ InaccessibleTick /\ trace[2].nth = 1) =>
        /\ Len(Emits(trace)) >= 1
        /\ EmitTypes(trace)[1] = "lost"
        /\ Details(trace)[1].lostForMs = 0
        /\ FactoryGave("window") =>
               EmitTypes(trace) = <<"lost", "open", "recovered">>

\* C4 witness: without a grace period the first inaccessible tick recovers.
FirstInaccessibleTickRecovers ==
    /\ lostAfterMs = 0
    /\ InaccessibleTick
    /\ trace[2].nth = 1
    /\ EmitTypes(trace) = <<"lost", "open", "recovered">>
    /\ Details(trace)[1].lostForMs = 0

\* C5: a tick that finds the handle open and accessible leaves lastLossAt at
\* 0, sets lastGoodAt to the time of the tick, emits no event, does not
\* invoke the factory and leaves the active handle, the timer and the
\* listener as they were.
AccessibleTickOnlyRefreshes ==
    [][AccessibleTick' =>
           /\ state'.lastLossAt = 0
           /\ state'.lastGoodAt = now'
           /\ Emits(trace') = << >>
           /\ ~Did(trace', "factory")
           /\ ~Did(trace', "win.close")
           /\ win' = win
           /\ made' = made
           /\ intervals' = intervals /\ listeners' = listeners]_vars

\* C5 witness: the third of three ticks after open() finds the handle
\* accessible, no loss having been recorded.
ThirdTickAccessible ==
    /\ AccessibleTick
    /\ now = state.lastGoodAt
    /\ now >= StartTime + 3 * pollMs
    /\ state.lastLossAt = 0
    /\ made = 1

\* C6: a close() called by the caller emits no event, and from its return
\* until the next open() no timer and no listener is registered, no tick and
\* no message callback runs and no event is emitted, although the handle
\* reads closed.
CallerCloseIsSilent ==
    closeReturned = "caller" =>
        /\ ~timer /\ ~messageHandler /\ intervals = 0 /\ listeners = 0
        /\ Op \in {"close", "none"}
        /\ Emits(trace) = << >>

\* C6 witness: close() has returned after ticks on an open handle, which
\* now reads closed, and no `closed` event was reported.
ClosedSilentlyAfterTicks ==
    /\ closeReturned = "caller"
    /\ Op = "close"
    /\ win # NoWin /\ winClosed
    /\ ~closedReported
    /\ state.lastGoodAt > StartTime

\* C7: once close() has returned, from whatever context it was called, the
\* timer and the message listener are not registered and are not registered
\* again, and the factory is not invoked, until open() is called.
CloseTakesEffectInEveryContext ==
    /\ closeReturned # "no" =>
           ~timer /\ ~messageHandler /\ intervals = 0 /\ listeners = 0
    /\ \A i, j \in DOMAIN trace :
           (i < j /\ trace[i].k = "return" /\ trace[i].name = "close") =>
               trace[j].k \notin {"factory", "setInterval", "addEventListener"}

\* C8: every handle the factory produced and the controller no longer holds
\* has been asked to close, so at most one handle is left un-closed.
SupersededHandlesAreClosed ==
    /\ \A h \in 1..made : h # win => h \in closeAsked
    /\ Cardinality((1..made) \ closeAsked) <= 1

\* The last operation was the message callback receiving a POPUP_EXIT.
ExitMessage ==
    Op = "message" /\ trace[1].msg.object /\ trace[1].msg.type = Some("POPUP_EXIT")

\* What C9 says of the receipt of a POPUP_EXIT message.
ExitIsSignaled ==
    ExitMessage =>
        /\ state.exitSignaled
        /\ EmitTypes(trace) = <<"exit">>
        /\ trace[1].msg.reason = Some("nav") => Details(trace)[1].reason = Some("nav")
        /\ trace[1].msg.reason = Undefined =>
               Details(trace)[1].reason = Some("unknown")
        /\ Details(trace)[1].state.exitSignaled

\* The last operation called openNew as part of a tick's recovery.
RecoveryAttempt == Op = "tick" /\ Did(trace, "factory")

\* C9 as stated: a POPUP_EXIT message sets exitSignaled and emits one `exit`
\* event with its reason and a snapshot in which exitSignaled is true;
\* exitSignaled then stays true until the next open(), which resets it.
ExitSignalLastsUntilOpen ==
    [][/\ ExitIsSignaled'
       /\ (state.exitSignaled /\ ~state'.exitSignaled) => Op' = "open"
       /\ Op' = "open" => ~state'.exitSignaled]_vars

\* C9 amended: as stated, but exitSignaled stays true until the next open()
\* or the next recovery attempt of a tick, each of which resets it.
ExitSignalLastsUntilOpenOrRecovery ==
    [][/\ ExitIsSignaled'
       /\ (state.exitSignaled /\ ~state'.exitSignaled) =>
              (Op' = "open" \/ RecoveryAttempt')
       /\ (Op' = "open" \/ RecoveryAttempt') => ~state'.exitSignaled]_vars

\* C9 witness: a POPUP_EXIT without a reason was received.
ExitReceivedWithoutReason ==
    /\ ExitMessage
    /\ trace[1].msg.reason = Undefined
    /\ EmitTypes(trace) = <<"exit">>
    /\ Details(trace)[1].reason = Some("unknown")
    /\ state.exitSignaled

\* C10: an open() in which the factory returns an invalid value throws,
\* emits no event, keeps the active handle, and registers neither the timer
\* nor the message listener.
InvalidFactoryResultFailsOpen ==
    [][(Op' = "open" /\ FactoryGave("invalid")') =>
           /\ trace'[Len(trace')].k = "throw"
           /\ trace'[Len(trace')].name = "open"
           /\ Emits(trace') = << >>
           /\ win' = win /\ winClosed' = winClosed /\ made' = made
           /\ timer' = timer /\ messageHandler' = messageHandler
           /\ intervals' = intervals /\ listeners' = listeners
           /\ ~Did(trace', "setInterval")
           /\ ~Did(trace', "addEventListener")]_vars

\* C10 witness: open() failed on an invalid factory result while a handle
\* was active; the handle and its timer are still there.
OpenFailedOnInvalidResult ==
    /\ Op = "open"
    /\ FactoryGave("invalid")
    /\ trace[Len(trace)].k = "throw"
    /\ win # NoWin
    /\ timer

\* ---- C11 ----
OpenSucceeded == Op = "open" /\ trace[Len(trace)].k = "return"

\* C11: a successful open(reason) invokes the factory exactly once, with a
\* snapshot of the state; the handle the factory returned is the active
\* handle and the value open() returns; lastGoodAt is the current time,
\* lastLossAt is 0, exitSignaled is false; exactly one open event is emitted,
\* carrying that reason and that handle; exactly one interval and one
\* message listener are left running.
SuccessfulOpenInstallsHandle ==
    OpenSucceeded =>
        LET calls == FactoryCalls(trace)
            d == Details(trace)
        IN  /\ Len(calls) = 1
            /\ calls[1].outcome = "window"
            /\ DOMAIN calls[1].arg = DOMAIN state
            /\ calls[1].arg.bounds = state.bounds
            /\ calls[1].arg.lastSeenHref = state.lastSeenHref
            /\ ~calls[1].arg.exitSignaled
            /\ win # NoWin /\ win = made
            /\ trace[Len(trace)].value = win
            /\ state.lastGoodAt = now
            /\ state.lastLossAt = 0
            /\ ~state.exitSignaled
            /\ EmitTypes(trace) = <<"open">>
            /\ d[1].reason = trace[1].reason
            /\ d[1].win = win
            /\ timer /\ intervals = 1
            /\ messageHandler /\ listeners = 1

\* a second open("manual") succeeded while the interval and the listener of
\* the first were running, after a tick had read the location of the window
ReopenedWhileRunning ==
    /\ OpenSucceeded
    /\ trace[1].reason = "manual"
    /\ made = 2
    /\ FactoryCalls(trace)[1].arg.lastSeenHref # Undefined

\* ---- C13 ----
RecoveryFailed == RecoveryAttempt /\ ~FactoryGave("window")

\* C13: when the factory throws or returns an invalid value during the
\* recovery of a tick, the error propagates out of the tick; lost was
\* emitted before the factory was invoked, and neither recovered nor open is
\* emitted for that tick.
FailedRecoveryPropagates ==
    RecoveryFailed =>
        /\ trace[Len(trace)] = [k |-> "throw", name |-> "tick", depth |-> 0]
        /\ EmitTypes(trace) = <<"lost">>
        /\ FirstOf(trace, "emit") < FirstOf(trace, "factory")
        /\ Len(FactoryCalls(trace)) = 1

\* a tick after the grace period whose recovery got an invalid value from
\* the factory
RecoveryGotInvalidResult ==
    /\ RecoveryFailed
    /\ FactoryGave("invalid")
    /\ lostAfterMs > 0
    /\ Details(trace)[1].lostForMs >= lostAfterMs

\* ---- C14 ----
\* C14: after a recovery has failed, no tick invokes the factory until the
\* caller calls open(): a factory that keeps failing is invoked at most once
\* per loss, whether or not close() made the old handle read closed.
FailedRecoveryIsNotRetried ==
    [][(failedRecovery /\ Op' = "tick") => ~Did(trace', "factory")]_vars

\* ---- C15 ----
\* The last operation was the message handler, and the event it received.
MessageReceived == Op = "message"
Received == trace[1].msg

\* C15: when options.targetOrigin is set, a message whose origin differs
\* from it is ignored: it changes nothing in the state and emits no event.
OtherOriginsAreIgnored ==
    [][(MessageReceived' /\ targetOrigin # Undefined
                         /\ Received'.origin \notin targetOrigin)
       => (state' = state /\ Emits(trace') = << >>)]_vars

\* ---- C17 ----
\* C17: two controllers are independent: a message that comes from the
\* window of another controller changes nothing in the state of this
\* controller and makes it emit nothing.
OtherControllersMessagesAreIgnored ==
    [][(MessageReceived' /\ ~Received'.fromOwn)
       => (state' = state /\ Emits(trace') = << >>)]_vars

\* ---- C18 ----
BoundsKeys == {"x", "y", "w", "h"}
IsUiState(msg) == msg.object /\ msg.type = Some("POPUP_UI_STATE")
IsExit(msg) == msg.object /\ msg.type = Some("POPUP_EXIT")
\* the bounds of a message carry fields of the record {x, y, w, h} only
WellFormedBounds(msg) ==
    /\ msg.bounds # Undefined
    /\ \A b \in msg.bounds : DOMAIN b # {} /\ DOMAIN b \subseteq BoundsKeys
Malformed(msg) ==
    \/ ~msg.object
    \/ ~IsExit(msg) /\ ~IsUiState(msg)
    \/ IsUiState(msg) /\ ~WellFormedBounds(msg)

\* C18: a malformed message (not an object, type missing or unknown,
\* POPUP_UI_STATE without bounds or with bounds that are not a record of
\* x, y, w, h) is ignored: no change of the state, no event.
MalformedMessagesAreIgnored ==
    [][(MessageReceived' /\ Malformed(Received'))
       => (state' = state /\ Emits(trace') = << >>)]_vars

\* ---- C19 ----
UiStateReceived ==
    MessageReceived /\ IsUiState(Received) /\ Received.bounds # Undefined

\* C19: a POPUP_UI_STATE message with bounds merges the fields it carries
\* into the tracked bounds (the others keep their value) and sets the name
\* only when the message's name is a string; it emits no event and leaves
\* lastSeenHref, lastGoodAt, lastLossAt, exitSignaled, the active handle and
\* the timer unchanged.
UiStateMessageMergesBounds ==
    [][UiStateReceived' =>
          LET carried == CHOOSE b \in Received'.bounds : TRUE
          IN  /\ DOMAIN state'.bounds = DOMAIN state.bounds \cup DOMAIN carried
              /\ \A key \in DOMAIN carried :
                     state'.bounds[key] = carried[key]
              /\ \A key \in DOMAIN state.bounds \ DOMAIN carried :
                     state'.bounds[key] = state.bounds[key]
              /\ state'.name = IF Received'.nameType = "string"
                               THEN Received'.name ELSE state.name
              /\ Emits(trace') = << >>
              /\ state'.lastSeenHref = state.lastSeenHref
              /\ state'.lastGoodAt = state.lastGoodAt
              /\ state'.lastLossAt = state.lastLossAt
              /\ state'.exitSignaled = state.exitSignaled
              /\ UNCHANGED <<win, timer, intervals>>]_vars

\* a message that carries w and h only arrived after x had been set to 20
\* and the name to "moved" by an earlier message: both kept their value
ResizedAfterMoved ==
    /\ UiStateReceived
    /\ Received = UiStateResized
    /\ state.bounds.x = Some(20)
    /\ state.bounds.w = Some(500)
    /\ state.name = Some("moved")

\* ---- C20 ----
\* The last operation was a tick that found the handle open, and its reads.
OpenTick == ProbedTick /\ ~trace[2].closed
TickReads == trace[2].reads
\* the state as the tick's snapshot left it: the state after the tick, or,
\* when the tick went on to recover, the state the lost event carries
Snapshot == IF Did(trace, "factory") THEN Details(trace)[1].state ELSE state
Kept(read, prior) == IF read.ok THEN read.value ELSE prior

\* C20: in a tick on an open handle every read (x, y, width, height, name,
\* href) is guarded on its own: a read that fails leaves its field at the
\* prior value and the other reads still update theirs; no failure of a
\* read is raised; the handle counts as accessible exactly when the read of
\* href succeeded.
ReadsAreGuardedIndependently ==
    [][OpenTick' =>
          /\ Snapshot'.bounds.x = Kept(TickReads'.x, state.bounds.x)
          /\ Snapshot'.bounds.y = Kept(TickReads'.y, state.bounds.y)
          /\ Snapshot'.bounds.w = Kept(TickReads'.w, state.bounds.w)
          /\ Snapshot'.bounds.h = Kept(TickReads'.h, state.bounds.h)
          /\ Snapshot'.name = Kept(TickReads'.name, state.name)
          /\ Snapshot'.lastSeenHref = Kept(TickReads'.href, state.lastSeenHref)
          /\ ~Did(trace', "throw")
          /\ trace'[2].accessible = TickReads'.href.ok]_vars

\* a tick whose read of x failed after a message had set x to 20: x kept the
\* 20, y and the location were updated, and the handle counted as accessible
XFailedOthersRead ==
    /\ OpenTick
    /\ TickReads = XUnreadable
    /\ trace[2].accessible
    /\ state.bounds.x = Some(20)
    /\ state.bounds.y = Some(10)
    /\ state.lastSeenHref = Some("https://app/popup")

\* ---- C16 ----
\* The last operation dispatched an event; how often it invoked a handler.
Dispatched == Op = "dispatch"
Invocations(h) ==
    Len(SelectSeq(trace, LAMBDA e : e.k = "handler" /\ e.callback = h))
Matches(i, type, h) ==
    subscriptions[i].type = type /\ subscriptions[i].handler = h
\* some on(type, h) call has not been unsubscribed
Subscribed(type, h) ==
    \E i \in DOMAIN subscriptions :
        Matches(i, type, h) /\ subscriptions[i].off = 0
\* some on(type, h) call was made after every invocation of a function
\* returned by an on(type, h) call
Registered(type, h) ==
    \E i \in DOMAIN subscriptions :
        /\ Matches(i, type, h)
        /\ \A j \in DOMAIN subscriptions :
               Matches(j, type, h) => subscriptions[j].off < i

\* C16: a handler is invoked once for every event of the type of one of
\* its on() calls emitted between that call and the invocation of the
\* function that call returned, whatever happened to other registrations
\* (of other handlers, or of the same handler by another on() call).
EachOnCallIsARegistration ==
    Dispatched =>
        \A h \in Handlers :
            Invocations(h) = IF Subscribed(trace[1].type, h) THEN 1 ELSE 0

\* C16, amended: a registration is a pair of type and handler.  A handler is
\* invoked once for an event of a type exactly when on(type, h) has been
\* called since the last invocation of a function returned by any
\* on(type, h) call: a repeated on(type, h) adds nothing, the function
\* returned by any of those calls removes the registration, and
\* registrations of other handlers or for other types are not affected.
RegistrationsAreTypeAndHandler ==
    Dispatched =>
        \A h \in Handlers :
            Invocations(h) = IF Registered(trace[1].type, h) THEN 1 ELSE 0

\* on(type, h1) was called twice and on(type, h2) once, the function of the
\* first call was invoked, and an event of that type was dispatched: h2 was
\* invoked, h1 was not, though the second on(type, h1) is not unsubscribed
SecondOnCallLostItsHandler ==
    /\ Dispatched
    /\ Len(subscriptions) = 3
    /\ Matches(1, trace[1].type, "h1") /\ subscriptions[1].off = 2
    /\ Matches(2, trace[1].type, "h1") /\ subscriptions[2].off = 0
    /\ Matches(3, trace[1].type, "h2") /\ subscriptions[3].off = 0
    /\ Invocations("h1") = 0
    /\ Invocations("h2") = 1

\* ---- C28 ----
\* The last operation was a tick whose recovery got a window from the factory.
RecoveryCompleted == RecoveryAttempt /\ FactoryGave("window")
\* a handler called controller.close() during the last operation
HandlerCalledClose ==
    \E i \in DOMAIN trace :
        trace[i].k = "call" /\ trace[i].name = "close" /\ trace[i].depth > 0
\* the timer and the listener that ran before the operation are still the
\* ones that run
SameTimerAndListenerRun ==
    /\ timer /\ intervals = 1
    /\ messageHandler /\ listeners = 1
    /\ ~Did(trace, "setInterval") /\ ~Did(trace, "clearInterval")
    /\ ~Did(trace, "addEventListener") /\ ~Did(trace, "removeEventListener")
\* the steps of the recovery of handle old, in their order, and the state
\* it leaves
EmitAt(type) ==
    CHOOSE i \in DOMAIN trace : trace[i].k = "emit" /\ trace[i].type = type
RecoverySteps(old) ==
    /\ EmitTypes(trace) = <<"lost", "open", "recovered">>
    /\ \E j \in DOMAIN trace :
           /\ trace[j].k = "win.close" /\ trace[j].h = old
           /\ EmitAt("lost") < j
           /\ j < FirstOf(trace, "factory")
    /\ FirstOf(trace, "factory") < EmitAt("open")
    /\ EmitAt("open") < EmitAt("recovered")
    /\ trace[EmitAt("open")].detail.reason = "recovery"
    /\ trace[EmitAt("open")].detail.win = win
    /\ Len(FactoryCalls(trace)) = 1
    /\ win # old /\ win = made
    /\ state.lastLossAt = 0
    /\ state.lastGoodAt = now
    /\ ~state.exitSignaled

LossDeclared == Op = "tick" /\ Len(Emits(trace)) >= 1 /\ EmitTypes(trace)[1] = "lost"

\* C29: with lostAfterMs > 0 the loss is declared only for sustained
\* inaccessibility.  A tick emits lost only when this and every earlier
\* tick since lastLossAt found the handle inaccessible, for at least
\* lostAfterMs; an accessible tick resets lastLossAt to 0, and the first
\* inaccessible tick after it starts the count anew, whatever the length of
\* the inaccessible period before it.
LossIsDeclaredForSustainedInaccessibilityOnly ==
    lostAfterMs > 0 =>
        /\ LossDeclared =>
               /\ InaccessibleTick
               /\ InaccessibleFor >= lostAfterMs
               /\ Details(trace)[1].lostForMs = InaccessibleFor
               /\ state.lastGoodAt <= now - InaccessibleFor - pollMs
                      \/ FactoryGave("window")
        /\ AccessibleTick => state.lastLossAt = 0
        /\ (InaccessibleTick /\ trace[2].nth = 1) =>
               (Emits(trace) = << >> /\ state.lastLossAt = now)

\* the third tick finds the handle inaccessible, the second had found it
\* accessible: the loss starts at the third tick and nothing is emitted
LossStartsAnewAfterAccessibleTick ==
    /\ lostAfterMs > 0
    /\ InaccessibleTick
    /\ trace[2].nth = 1
    /\ now = StartTime + 3 * pollMs
    /\ state.lastGoodAt = now - pollMs
    /\ state.lastLossAt = now
    /\ Emits(trace) = << >>

\* ---- C30 ----
\* C30: between callbacks lastLossAt is non-zero exactly when the most
\* recent accessibility probe of the active handle failed and no recovery
\* has replaced the handle since (streak counts the consecutive failed
\* probes of the active handle); it is 0 after a successful open(), after a
\* completed recovery and after a tick that found the handle accessible.
LossMarkMeansLastProbeFailed ==
    /\ state.lastLossAt # 0 <=> streak > 0
    /\ OpenSucceeded => state.lastLossAt = 0
    /\ RecoveryCompleted => state.lastLossAt = 0
    /\ AccessibleTick => state.lastLossAt = 0
    /\ (InaccessibleTick /\ ~RecoveryCompleted) =>
           (state.lastLossAt # 0 /\ state.lastLossAt = now - InaccessibleFor)

\* a recovery failed: the handle is the one whose probe failed, and
\* lastLossAt holds the time of that probe
LossMarkAfterFailedRecovery ==
    /\ RecoveryFailed
    /\ state.lastLossAt = now
    /\ streak = 1
    /\ win = 1

\* ---- C21 ----
\* The windows made by the hook that are open.
OpenWindows == {w \in DOMAIN dom.windows : dom.windows[w] = "open"}
\* The hook holds a window, and that window is not closed.
HoldsOpenWindow ==
    /\ hook.externalWindowRef # NoWin
    /\ dom.windows[hook.externalWindowRef] = "open"
Count(tr, kind) == Len(SelectSeq(tr, LAMBDA e : e.k = kind))

\* C21: open() called while the window of the hook is open does not call
\* window.open: it focuses the window and leaves externalWindow, isOpen and
\* portalTarget as they are; so at most one window made by the hook is open
\* at any time.
OpenFocusesAndOneWindowIsOpen ==
    [][/\ (HoldsOpenWindow /\ Op' = "hook.open") =>
              /\ trace' = <<[k |-> "call", name |-> "hook.open", depth |-> 0],
                            [k |-> "focus", h |-> hook.externalWindowRef]>>
              /\ hook' = hook
              /\ dom' = dom
       /\ Cardinality(OpenWindows') <= 1]_vars

\* ---- C22 ----
\* C22: when the user has closed the window while the hook held it as its
\* open window, the next firing of the interval that polls the window
\* detects it: afterwards portalTarget is null, isOpen false, the window
\* reference null, the interval that polls the window cleared, and onClose
\* has been called.
UserClosureIsCleanedUpAtNextPoll ==
    [][\A w \in dom.closedOpen :
           (Op' = "hook.poll" /\ trace'[1].of = w) =>
               /\ hook'.portalTarget = NoWin
               /\ ~hook'.isOpen
               /\ hook'.externalWindowRef = NoWin
               /\ w \notin dom'.polls
               /\ Count(trace', "onClose") = 1]_vars

\* ---- C23 ----
\* C23: close() called while the hook holds an open window, and likewise
\* the unmounting of the component, invokes close() on that window, clears
\* the interval that polls it, sets portalTarget to null, isOpen to false
\* and externalWindow to null, and calls onClose, once.
CloseCleansUp ==
    [][(HoldsOpenWindow /\ Op' \in {"hook.close", "hook.unmount"}) =>
          /\ \E i \in DOMAIN trace' :
                 trace'[i] = [k |-> "win.close", h |-> hook.externalWindowRef]
          /\ dom'.windows[hook.externalWindowRef] = "closing"
          /\ hook.externalWindowRef \notin dom'.polls
          /\ hook'.checkWindowIntervalRef = NoWin
          /\ hook'.portalTarget = NoWin
          /\ ~hook'.isOpen
          /\ hook'.externalWindowRef = NoWin
          /\ Count(trace', "onClose") = 1]_vars

\* the component unmounted while the hook held an open window: close() was
\* invoked on the window and nothing polls any more
UnmountedWithOpenWindow ==
    /\ Op = "hook.unmount"
    /\ Did(trace, "win.close")
    /\ ~hook.mounted
    /\ dom.polls = {}
    /\ OpenWindows = {}

\* ---- C24 ----
\* The last operation was an open() in which window.open returned null.
OpenWasBlocked ==
    /\ Op = "hook.open"
    /\ \E i \in DOMAIN trace :
           trace[i] = [k |-> "window.open", outcome |-> "null"]

\* C24: when window.open returns null, open() reports an error and changes
\* nothing: isOpen stays false, portalTarget and externalWindow stay null
\* (each is as it was before the call), no interval is started, and neither
\* onOpen nor onClose is called.
BlockedOpenChangesNothing ==
    [][OpenWasBlocked' =>
          /\ hook' = hook
          /\ dom' = dom
          /\ ~hook.isOpen => ~hook'.isOpen
          /\ hook.portalTarget = NoWin => hook'.portalTarget = NoWin
          /\ hook.externalWindowRef = NoWin => hook'.externalWindowRef = NoWin
          /\ dom'.polls = dom.polls
          /\ Count(trace', "console.error") = 1
          /\ ~Did(trace', "setInterval")
          /\ ~Did(trace', "onOpen")
          /\ ~Did(trace', "onClose")]_vars

\* window.open returned null when the hook, having closed its first window,
\* held none
BlockedAfterClose ==
    /\ OpenWasBlocked
    /\ Len(dom.windows) = 1
    /\ hook = HookInitial
    /\ dom.polls = {}

\* ---- C25 ----
\* C25: portalTarget is null whenever the window is closed: in every
\* reachable state isOpen = false implies portalTarget = null.
PortalTargetIsNullWhenClosed ==
    ~hook.isOpen => hook.portalTarget = NoWin

\* ---- C26 ----
RECURSIVE Rendered(_)
\* The entries of a record in order, each as key=value (yes / no for a
\* boolean), joined by commas, those with an undefined or null value left out
Rendered(features) ==
    IF features = << >> THEN ""
    ELSE LET e == Head(features)
             rest == Rendered(Tail(features))
             text == e.key \o "=" \o
                        (CASE e.value.t = "boolean" ->
                                  IF e.value.b THEN "yes" ELSE "no"
                           [] e.value.t = "number" -> ToString(e.value.n)
                           [] OTHER -> e.value.s)
         IN  IF e.value.t \in {"undefined", "null"} THEN rest
             ELSE IF rest = "" THEN text
             ELSE text \o "," \o rest

Serialized == Op = "serializeWindowFeatures"

\* C26: serializeWindowFeatures gives the entries of the record in the
\* record's key order, each rendered as key=value and joined by commas, a
\* boolean as yes or no, a number or a 'yes'/'no' string as itself, entries
\* whose value is undefined or null left out; the empty record gives the
\* empty string.
SerializesEntriesInOrder ==
    Serialized =>
        /\ result = Some(Rendered(arg))
        /\ arg = << >> => result = Some("")

\* a record whose first entry is undefined and whose second is the number 0
SerializedZeroAfterUndefined ==
    /\ Serialized
    /\ arg = <<Entry("width", UndefinedValue), Entry("top", Num(0))>>
    /\ result = Some("top=0")

\* ---- C27 ----
FullscreenRequested == Op = "requestFullscreen"

\* The window is there and open, its document element can be read and has
\* one of the four request methods, and calling the first of them that is
\* there neither throws nor gives a promise that rejects
RequestGoesThrough ==
    /\ arg.window = "open"
    /\ arg.document = "element"
    /\ \E i \in DOMAIN arg.methods :
          /\ arg.methods[i] \in {"resolves", "returns"}
          /\ \A j \in 1..(i - 1) : arg.methods[j] = "absent"

\* C27: requestFullscreen(window) resolves to true exactly when the window
\* is non-null and not closed, its document element offers a fullscreen
\* request method (standard, webkit, moz or ms) and that request does not
\* fail; in every other case it resolves to false, and it never rejects.
RequestFullscreenResolvesAndTellsSuccess ==
    FullscreenRequested =>
        \E r \in result :
            /\ r.settled = "resolved"
            /\ r.value = RequestGoesThrough

\* only the ms-prefixed method is there and its promise rejects: resolved to
\* false through the catch block
MsRequestRejected ==
    /\ FullscreenRequested
    /\ arg.window = "open"
    /\ arg.document = "element"
    /\ arg.methods = <<"absent", "absent", "absent", "rejects">>
    /\ result = Some(Caught)

\* ---- C31 ----
\* The detail of the `closed` event of a tick that reported a closure
ClosedDetail == Details(trace)[1]

\* C31: the exitSignaled field of every `closed` event is true exactly when
\* a POPUP_EXIT message was received after the handle being reported closed
\* was opened (by open() or by recovery) and before the tick that reports
\* it; an exit message received while an earlier handle was the active one
\* never makes it true.
ExitSignaledTellsExitOfReportedHandle ==
    ClosedTick => (ClosedDetail.exitSignaled <=> exitHeard)

\* ---- C32 ----
\* The last operation was a tick in which reading the closed flag of the
\* active handle threw
ClosedReadThrew == ProbedTick /\ ~trace[2].closedRead

\* C32: a tick in which reading the handle's closed flag throws treats the
\* handle as not closed: it emits no `closed` event, does not stop the timer
\* or the listener, and goes on to the accessibility probe of the same tick
\* (the snapshot is taken, and a readable location marks the handle good).
FailedClosedReadCountsAsNotClosed ==
    [][ClosedReadThrew' =>
          /\ ~trace'[2].closed
          /\ \A i \in DOMAIN trace' :
                 trace'[i].k = "emit" => trace'[i].type # "closed"
          /\ ~Did(trace', "clearInterval")
          /\ ~Did(trace', "removeEventListener")
          /\ timer' = timer /\ intervals' = intervals
          /\ messageHandler' = messageHandler /\ listeners' = listeners
          /\ trace'[2].accessible = Accessible(trace'[2].reads)
          /\ state'.lastSeenHref = trace'[2].reads.href.value
          /\ state'.lastGoodAt = now']_vars

\* the closed flag of a window the user had closed could not be read: the
\* tick went on and found the window accessible
ClosedWindowReadAsOpen ==
    /\ ClosedReadThrew
    /\ winClosed
    /\ AccessibleTick
    /\ timer /\ messageHandler

\* ---- C33 ----
\* C33: the clock never going back, lastGoodAt never decreases over any
\* sequence of open(), close(), ticks and messages, and it changes only in a
\* successful open(), a completed recovery, or a tick that found the handle
\* accessible.
LastGoodAtOnlyGrows ==
    [][/\ now' >= now
       /\ state'.lastGoodAt >= state.lastGoodAt
       /\ state'.lastGoodAt # state.lastGoodAt =>
              (OpenSucceeded' \/ RecoveryCompleted' \/ AccessibleTick')]_vars

\* a recovery completed two ticks after the handle was last found good
RecoveryMovedLastGoodAt ==
    /\ RecoveryCompleted
    /\ state.lastGoodAt = now
    /\ FactoryCalls(trace)[1].arg.lastGoodAt = now - 2 * pollMs

\* ---- C34 ----
\* C34: the byManager field of every `closed` event is true exactly when the
\* controller itself invoked close() on the handle being reported closed
\* (through close(), through a superseding open() or through a recovery
\* attempt), and false when the handle was closed from outside the
\* controller.  (closeAsked before the tick: a handler of the event may call
\* close() after the event was emitted.)
ByManagerTellsWhoClosed ==
    [][ClosedTick' => (ClosedDetail'.byManager <=> win \in closeAsked)]_vars

\* ---- C35 ----
\* C35: after any sequence of open(), close(), ticks and messages on one
\* controller, at most one interval timer and at most one message listener
\* registered by that controller are active, and a timer is active only if
\* a message listener is also registered.
OneTimerOneListener ==
    /\ intervals <= 1
    /\ listeners <= 1
    /\ intervals > 0 => listeners > 0
    /\ timer <=> intervals = 1
    /\ messageHandler <=> listeners = 1

\* open() was called while the timer and the listener of an earlier open()
\* ran: the interval was replaced, the listener kept
RestartedWhileRunning ==
    /\ Op = "open"
    /\ Did(trace, "clearInterval")
    /\ Did(trace, "setInterval")
    /\ ~Did(trace, "addEventListener")
    /\ intervals = 1 /\ listeners = 1

\* ---- C36 ----
\* The last operation was an open() that threw
OpenFailed == Op = "open" /\ trace[Len(trace)].k = "throw"

\* C36: an open() that fails because the factory throws or returns an
\* invalid handle leaves the controller exactly as it was before the call:
\* every field of the tracked state (including exitSignaled), the
\* closed-by-manager flag, the active handle, the timer and the listener are
\* unchanged.
FailedOpenChangesNothing ==
    [][OpenFailed' =>
          /\ state' = state
          /\ closedByManager' = closedByManager
          /\ win' = win
          /\ timer' = timer /\ intervals' = intervals
          /\ messageHandler' = messageHandler /\ listeners' = listeners]_vars

\* ---- C37 ----
\* The last operation was the callback of the interval of a window that is
\* not the one the hook held, and it found its window closed
StalePollSawClosure(held) ==
    /\ Op = "hook.poll"
    /\ trace[1].closed
    /\ trace[1].of # held

\* C37: after any interleaving of open(), close(), user closures and poll
\* callbacks, at most one close-detection interval is active per hook
\* instance, and a poll callback that observes an earlier window closed
\* never clears isOpen, portalTarget, the window reference or the poll
\* interval belonging to a later window that is still open.
OneIntervalAndStalePollsAreHarmless ==
    [][/\ Cardinality(dom'.polls) <= 1
       /\ \A held \in DOMAIN dom.windows :
              (/\ hook.externalWindowRef = held
               /\ dom.windows[held] = "open"
               /\ StalePollSawClosure(held)') =>
                  /\ hook'.isOpen = hook.isOpen
                  /\ hook'.portalTarget = hook.portalTarget
                  /\ hook'.externalWindowRef = held
                  /\ hook'.checkWindowIntervalRef = hook.checkWindowIntervalRef
                  /\ held \in dom.polls => held \in dom'.polls]_vars

\* ---- C38 ----
\* The calls of onClose in the last operation
OnCloseCalls == Count(trace, "onClose")

\* C38: onClose is called exactly once for each window that was opened and
\* then became closed (by close(), by unmount or by the user), and is never
\* called when no window was open (close() or unmount before any open(), or
\* a second close()): an operation calls it at most once, only when the hook
\* held a window before the operation, and always when the hook stops
\* holding its window.
OnCloseOncePerClosedWindow ==
    [][/\ OnCloseCalls' <= 1
       /\ OnCloseCalls' = 1 => hook.externalWindowRef # NoWin
       /\ (hook.isOpen /\ ~hook'.isOpen) => OnCloseCalls' = 1]_vars

\* ---- C39 ----
\* The `navigation` handler of the caller, as invoked by the last operation:
\* the URLs it was given
NavigationCalls ==
    LET calls == SelectSeq(trace, LAMBDA e : e.k = "handler" /\ e.type = "navigation")
    IN  [i \in 1..Len(calls) |-> calls[i].url]

\* C39: whenever a poll reads a location.href of the opened window that
\* differs from the last known URL, the caller's `navigation` handler is
\* invoked exactly once with the new URL, and it is not invoked while the
\* URL is unchanged; once a location read fails (cross-origin) polling stops.
PollReportsNavigationOnce ==
    [][Op' = "poller" =>
          /\ (/\ popup.href # Denied
              /\ popup.href # popup.lastUrl
              /\ "navigation" \in popup.events) =>
                 NavigationCalls' = <<popup.href>>
          /\ popup.href = popup.lastUrl => NavigationCalls' = << >>
          /\ popup.href = Denied => ~popup'.poller]_vars

\* ---- C40 ----
\* C40: calling close() on the window returned by openWindow removes every
\* listener that was registered through the window's addEventListener since
\* it was opened, restores and calls the original close exactly once, and
\* then invokes the caller's `afterClosed` handler (when one was given) with
\* the window's name.
PatchedCloseCleansUpAndReports ==
    [][(Op' = "window.close" /\ popup.patched) =>
          /\ popup'.listeners = << >>
          /\ popup'.callHistory = << >>
          /\ ~popup'.patched
          /\ Count(trace', "originalClose") = 1
          /\ popup'.closes = popup.closes + 1
          /\ "afterClosed" \in popup.events =>
                 /\ trace'[Len(trace')] =
                        [k |-> "handler", type |-> "afterClosed",
                         windowName |-> IF popup.name = "" THEN Undefined
                                        ELSE Some(popup.name)]
                 /\ Count(trace', "handler") = 1]_vars

====
